---- MODULE Spec2Model ----
(***************************************************************************)
(* Model of the snforge-scarb-plugin configuration pass:                   *)
(*   - config_statement.rs : with_config_cheatcodes and                    *)
(*                           append_config_statements (statement splicer)  *)
(*   - cairo_expression.rs : CairoExpression for Option<T> and Vec<T>      *)
(*   - parse.rs            : parse (token stream -> FunctionWithBody),     *)
(*                           parse_args                                    *)
(* and of the sncast configuration and account files:                      *)
(*   - helpers/config.rs, main.rs : CastConfigBuilder and the config of    *)
(*                           main                                          *)
(*   - account/mod.rs      : write_account_to_accounts_file,               *)
(*                           add_created_profile_to_configuration          *)
(*                                                                         *)
(* A TokenStream is a sequence of strings.  A syntax node is a record that *)
(* carries, like a cairo syntax node, the text (tokens) it was parsed      *)
(* from.  Every expansion re-parses the token stream that the previous     *)
(* expansion emitted.                                                      *)
(***************************************************************************)
EXTENDS Integers, Sequences, FiniteSets, TLC

VARIABLES
    source,    \* TokenStream of the function as written, before any expansion
    item,      \* TokenStream of the annotated item (input of the next expansion)
    prev,      \* TokenStream the last expansion consumed
    config,    \* config_statements the last expansion spliced in
    applied,   \* attribute kinds expanded so far, in application order
    status,    \* "ok" | "rejected" (diagnostics returned) | "panicked" (aborted)
    collected, \* what the collector returned to the last expansion
    diagnostics, \* Diagnostics the last expansion returned
    ty,        \* serializer: type of the value
    value,     \* serializer: the value (self)
    tokens,    \* serializer: result of as_cairo_expression
    evaluated, \* serializer: value the target language builds from the tokens
    phase,     \* serializer: "input" | "serialized" | "evaluated"
    scarb_toml,    \* sncast: contents of Scarb.toml
    accounts_file, \* sncast: contents of the accounts file, or absent
    call,          \* sncast: the last operation and its arguments
    returned,      \* sncast: what the last operation returned
    first_written, \* sncast: account_json of the first successful write per entry
    calls,         \* sncast: operations run so far
    parse_call,    \* parser: the last call of parse / parse_args and its input
    parse_returned \* parser: what that call returned

splicerVars == <<source, item, prev, config, applied, status, collected, diagnostics>>
serVars == <<ty, value, tokens, evaluated, phase>>
parseVars == <<parse_call, parse_returned>>
castVars == <<scarb_toml, accounts_file, call, returned, first_written, calls>>
vars ==
    <<source, item, prev, config, applied, status, collected, diagnostics,
      ty, value, tokens, evaluated, phase,
      scarb_toml, accounts_file, call, returned, first_written, calls,
      parse_call, parse_returned>>

\* ------------------------------------------------------------------ bounds
MaxApply == 3   \* stacked attributes expanded on one function
MaxRest == 2    \* statements following the first statement of the input body
MaxLen == 2     \* elements of a serialized Vec
MaxCalls == 2   \* sncast operations run on one pair of files
MaxItems == 3   \* items of a parsed unit

Nil == [tag |-> "Nil"]

\* neither parse nor parse_args has been called
ParseIdle == parse_call = Nil /\ parse_returned = Nil

\* no sncast command is running
CastIdle ==
    /\ scarb_toml = Nil /\ accounts_file = Nil /\ call = Nil /\ returned = Nil
    /\ first_written = <<>> /\ calls = 0

\* ------------------------------------------------------------ token streams
Keywords == {"if", "else", "let", "return", "fn", "pub", "mod", "struct"}
Punct == {"{", "}", "(", ")", "[", "]", "#", "::", ":", ";", "=", ",", ".", "<eof>"}

IsIdent(t) == t \notin Keywords /\ t \notin Punct /\ t # "#[test]"

Tok(ts, i) == IF i >= 1 /\ i <= Len(ts) THEN ts[i] ELSE "<eof>"

\* the text of the tokens i .. j-1 (a syntax node's source text)
Text(ts, i, j) == SubSeq(ts, i, IF j - 1 <= Len(ts) THEN j - 1 ELSE Len(ts))

RECURSIVE Concat(_)
Concat(ss) == IF ss = <<>> THEN <<>> ELSE Head(ss) \o Concat(Tail(ss))

\* ------------------------------------------------- attribute kinds (callers)
\* The collectors that instantiate with_config_cheatcodes: each has a
\* CHEATCODE_NAME and produces a configuration value expression.
Kinds == {"fork", "fuzzer"}

CheatcodeName(k) == IF k = "fork" THEN "set_config_fork" ELSE "set_config_fuzzer"

\* format!("starknet::testing::cheatcode::<'{cheatcode_name}'>(data.span())"),
\* emitted as ONE identifier token
CheatcodeToken(k) ==
    IF k = "fork"
    THEN "starknet::testing::cheatcode::<'set_config_fork'>(data.span())"
    ELSE "starknet::testing::cheatcode::<'set_config_fuzzer'>(data.span())"

CheatcodeTokens == {CheatcodeToken(k) : k \in Kinds}

\* Collector::args_into_config_expression: the configuration value expression
ValueTokens(k) == IF k = "fork" THEN <<"fork_config">> ELSE <<"fuzzer_config">>

\* -------------------------------------------------------------- the parser
\* SimpleParserDatabase::parse_token_stream on the grammar the plugin meets:
\*   unit      := item*
\*   item      := attr* ["pub"] (function | "mod" ID ";" | "struct" ID "{" "}")
\*   attr      := "#[test]" | "#" "[" ID ["(" token* ")"] "]"
\*   function  := "fn" ID "(" ")" block
\*   block     := "{" statement* "}"
\*   statement := "let" ID ";" | "return" ";" | if | expr [";"]
\*   if        := "if" condition block ["else" block]
\*   condition := "let" ID "=" expr | expr
\*   expr      := primary ("." primary)*
\*   primary   := cheatcode-token | ID ("::" ID)* ["(" ")"]
\* Every result is [node(s), next, ok]: the node(s) parsed, the index of the
\* first token not consumed, and whether the text was well-formed.

PathExpr(tag, segments) ==
    [tag |-> tag, path |-> segments, condition |-> Nil,
     if_block |-> <<>>, else_clause |-> Nil]

\* Each parsing step is split in two operators, X and XFrom: XFrom builds
\* the result of X from the results of the sub-parses it is handed.

PathFrom(ts, i, r) ==
    [node |-> <<ts[i]>> \o r.node, next |-> r.next, ok |-> r.ok]

RECURSIVE ParsePath(_, _)
ParsePath(ts, i) ==
    IF ~IsIdent(Tok(ts, i))
    THEN [node |-> <<>>, next |-> i, ok |-> FALSE]
    ELSE IF Tok(ts, i + 1) = "::"
         THEN PathFrom(ts, i, ParsePath(ts, i + 2))
         ELSE [node |-> <<ts[i]>>, next |-> i + 1, ok |-> TRUE]

PrimaryFrom(ts, p) ==
    IF p.ok /\ Tok(ts, p.next) = "(" /\ Tok(ts, p.next + 1) = ")"
    THEN [node |-> PathExpr("FunctionCall", p.node), next |-> p.next + 2,
          ok |-> TRUE]
    ELSE [node |-> PathExpr("Path", p.node), next |-> p.next, ok |-> p.ok]

ParsePrimary(ts, i) ==
    IF Tok(ts, i) \in CheatcodeTokens
    THEN [node |-> PathExpr("FunctionCall", <<"starknet", "testing", "cheatcode">>),
          next |-> i + 1, ok |-> TRUE]
    ELSE PrimaryFrom(ts, ParsePath(ts, i))

BinaryFrom(l, r) ==
    [node |-> PathExpr("Binary", l.node.path), next |-> r.next, ok |-> r.ok]

RECURSIVE ParseExpr(_, _), ExprFrom(_, _)
ExprFrom(ts, l) ==
    IF l.ok /\ Tok(ts, l.next) = "."
    THEN BinaryFrom(l, ParseExpr(ts, l.next + 1))
    ELSE l

ParseExpr(ts, i) == ExprFrom(ts, ParsePrimary(ts, i))

ConditionFrom(tag, e, ok) ==
    [node |-> [tag |-> tag, expr |-> e.node], next |-> e.next, ok |-> e.ok /\ ok]

ParseCondition(ts, i) ==
    IF Tok(ts, i) = "let"
    THEN ConditionFrom("Let", ParseExpr(ts, i + 3),
                       IsIdent(Tok(ts, i + 1)) /\ Tok(ts, i + 2) = "=")
    ELSE ConditionFrom("Expr", ParseExpr(ts, i), TRUE)

Stmt(tag, expr, text) == [tag |-> tag, expr |-> expr, text |-> text]

RECURSIVE ParseStatement(_, _), ParseStatements(_, _), ParseBlock(_, _), ParseIf(_, _)

BlockFrom(ts, r) ==
    [node |-> r.node, next |-> r.next + 1, ok |-> r.ok /\ Tok(ts, r.next) = "}"]

ParseBlock(ts, i) ==
    IF Tok(ts, i) # "{"
    THEN [node |-> <<>>, next |-> i, ok |-> FALSE]
    ELSE BlockFrom(ts, ParseStatements(ts, i + 1))

IfFrom(c, b, hasElse, e) ==
    [node |-> [tag |-> "If", path |-> <<>>, condition |-> c.node,
               if_block |-> b.node,
               else_clause |-> IF hasElse
                               THEN [tag |-> "Else", block |-> e.node]
                               ELSE Nil],
     next |-> e.next, ok |-> c.ok /\ b.ok /\ e.ok]

IfFromBlock(ts, c, b) ==
    IF Tok(ts, b.next) = "else"
    THEN IfFrom(c, b, TRUE, ParseBlock(ts, b.next + 1))
    ELSE IfFrom(c, b, FALSE, [node |-> <<>>, next |-> b.next, ok |-> TRUE])

IfFromCondition(ts, c) == IfFromBlock(ts, c, ParseBlock(ts, c.next))

ParseIf(ts, i) == IfFromCondition(ts, ParseCondition(ts, i + 1))

StatementFrom(tag, ts, i, e, next, ok) ==
    [node |-> Stmt(tag, e.node, Text(ts, i, next)), next |-> next, ok |-> e.ok /\ ok]

IfStatementFrom(ts, i, e) ==
    StatementFrom("Expr", ts, i, e,
                  IF Tok(ts, e.next) = ";" THEN e.next + 1 ELSE e.next, TRUE)

ExprStatementFrom(ts, i, e) ==
    StatementFrom(IF e.ok THEN "Expr" ELSE "Missing", ts, i, e,
                  IF Tok(ts, e.next) = ";" THEN e.next + 1
                  ELSE IF e.next > i THEN e.next ELSE i + 1,
                  \* an expression without `;` is only the tail of its block
                  Tok(ts, e.next) \in {";", "}"})

ParseStatement(ts, i) ==
    CASE Tok(ts, i) = "let" ->
            [node |-> Stmt("Let", Nil, Text(ts, i, i + 3)), next |-> i + 3,
             ok |-> IsIdent(Tok(ts, i + 1)) /\ Tok(ts, i + 2) = ";"]
      [] Tok(ts, i) = "return" ->
            [node |-> Stmt("Return", Nil, Text(ts, i, i + 2)), next |-> i + 2,
             ok |-> Tok(ts, i + 1) = ";"]
      [] Tok(ts, i) = "if" -> IfStatementFrom(ts, i, ParseIf(ts, i))
      [] OTHER -> ExprStatementFrom(ts, i, ParseExpr(ts, i))

StatementsFrom(s, r) ==
    [node |-> <<s.node>> \o r.node, next |-> r.next, ok |-> s.ok /\ r.ok]

StatementsAfter(ts, s) == StatementsFrom(s, ParseStatements(ts, s.next))

ParseStatements(ts, i) ==
    IF Tok(ts, i) \in {"}", "<eof>"}
    THEN [node |-> <<>>, next |-> i, ok |-> TRUE]
    ELSE StatementsAfter(ts, ParseStatement(ts, i))

RECURSIVE SkipAttrs(_, _)
\* index of the `)` that closes the parenthesis opened before i, 0 if none
RECURSIVE MatchingParen(_, _, _)
MatchingParen(ts, i, depth) ==
    IF i > Len(ts) THEN 0
    ELSE IF ts[i] = "(" THEN MatchingParen(ts, i + 1, depth + 1)
    ELSE IF ts[i] # ")" THEN MatchingParen(ts, i + 1, depth)
    ELSE IF depth = 1 THEN i
    ELSE MatchingParen(ts, i + 1, depth - 1)

ArgList(tag, ts, i, next) ==
    [tag |-> tag, text |-> Text(ts, i, next), next |-> next]

\* OptionArgListParenthesized after the path of an attribute
ArgumentsAt(ts, i) ==
    IF Tok(ts, i) = "(" /\ MatchingParen(ts, i + 1, 1) > 0
    THEN ArgList("ArgListParenthesized", ts, i, MatchingParen(ts, i + 1, 1) + 1)
    ELSE ArgList("Empty", ts, i, i)

\* index of the first token after the attribute at i; i if none starts there
AttrEnd(ts, i) ==
    IF Tok(ts, i) = "#[test]" THEN i + 1
    ELSE IF /\ Tok(ts, i) = "#" /\ Tok(ts, i + 1) = "[" /\ IsIdent(Tok(ts, i + 2))
            /\ Tok(ts, ArgumentsAt(ts, i + 3).next) = "]"
    THEN ArgumentsAt(ts, i + 3).next + 1
    ELSE i

SkipAttrs(ts, i) == IF AttrEnd(ts, i) > i THEN SkipAttrs(ts, AttrEnd(ts, i)) ELSE i

\* ModuleItem::FreeFunction: attributes, visibility, declaration and body
FunctionFrom(ts, i, v, f, b) ==
    [node |-> [attributes |-> Text(ts, i, v),
               visibility |-> Text(ts, v, f),
               declaration |-> Text(ts, f, f + 4),
               body |-> b.node],
     next |-> b.next,
     free_function |-> Tok(ts, f) = "fn",
     ok |-> /\ Tok(ts, f) = "fn" /\ IsIdent(Tok(ts, f + 1))
            /\ Tok(ts, f + 2) = "(" /\ Tok(ts, f + 3) = ")"
            /\ b.ok /\ b.next = Len(ts) + 1]

FunctionAt(ts, i, v, f) == FunctionFrom(ts, i, v, f, ParseBlock(ts, f + 4))

FunctionAfterAttrs(ts, i, v) ==
    FunctionAt(ts, i, v, IF Tok(ts, v) = "pub" THEN v + 1 ELSE v)

ParseFunction(ts, i) == FunctionAfterAttrs(ts, i, SkipAttrs(ts, i))

\* parse.rs `parse`: the first free function of the parsed unit, else the
\* "can be used only on a function" diagnostic
ParseResult(r) ==
    IF r.free_function
    THEN [tag |-> "Ok", func |-> r.node, wellformed |-> r.ok]
    ELSE [tag |-> "Err", func |-> Nil, wellformed |-> FALSE]

\* index of the keyword of the item at i, after its attributes and visibility
ItemKeyword(ts, i) ==
    IF Tok(ts, SkipAttrs(ts, i)) = "pub" THEN SkipAttrs(ts, i) + 1 ELSE SkipAttrs(ts, i)

\* index of the first token after the item at i that is not a function; a
\* token that starts no item is skipped
ItemEnd(ts, i) ==
    IF Tok(ts, ItemKeyword(ts, i)) = "mod" THEN ItemKeyword(ts, i) + 3
    ELSE IF Tok(ts, ItemKeyword(ts, i)) = "struct" THEN ItemKeyword(ts, i) + 4
    ELSE ItemKeyword(ts, i) + 1

\* faulty variant: only the first item of the unit is inspected
FirstItemOnly(ts, i) == i

\* find_map over the items: the start of the first ModuleItem::FreeFunction
\* at or after i, the end of the unit if there is none
RECURSIVE FirstFreeFunction(_, _)
FirstFreeFunction(ts, i) ==
    IF i > Len(ts) THEN Len(ts) + 1
    ELSE IF Tok(ts, ItemKeyword(ts, i)) = "fn" THEN i
    ELSE FirstFreeFunction(ts, ItemEnd(ts, i))

parse(code) == ParseResult(ParseFunction(code, FirstFreeFunction(code, 1)))

\* ------------------------------------------------------ config_statement.rs
SentinelPath == <<"snforge_std", "_internals", "_is_config_run">>

\* quote!(#syntax) of each statement, folded into one TokenStream
StatementsTokens(stmts) == Concat([n \in 1..Len(stmts) |-> stmts[n].text])

\* faulty variant: the sub-namespace segment is not compared
IsConfigRunIfLoose(stmt) ==
    /\ stmt.tag = "Expr"
    /\ stmt.expr.tag = "If"
    /\ stmt.expr.condition.tag = "Expr"
    /\ stmt.expr.condition.expr.tag = "FunctionCall"
    /\ LET segments == stmt.expr.condition.expr.path
       IN  /\ Len(segments) = 3
           /\ ~ (\/ segments[1] # "snforge_std"
                 \/ segments[3] # "_is_config_run")

\* the closure of `statements.first().and_then(..)` up to the sentinel test:
\* TRUE iff the closure does not return None before reading the if block
IsConfigRunIf(stmt) ==
    /\ stmt.tag = "Expr"                          \* let Statement::Expr(expr)
    /\ stmt.expr.tag = "If"                       \* let Expr::If(if_expr)
    /\ stmt.expr.condition.tag = "Expr"           \* let Condition::Expr(expr)
    /\ stmt.expr.condition.expr.tag = "FunctionCall"
    /\ LET segments == stmt.expr.condition.expr.path
       IN  /\ Len(segments) = 3                   \* let [a, b, c] = segments
           /\ ~ (\/ segments[1] # "snforge_std"
                 \/ segments[2] # "_internals"
                 \/ segments[3] # "_is_config_run")

\* `statements[..statements.len() - 1]` on the if block: the subtraction
\* overflows (debug) or the slice end is out of range (release) when the
\* block is empty; both abort the expansion
IfContentPanics(statements) ==
    /\ statements # <<>>
    /\ IsConfigRunIf(statements[1])
    /\ Len(statements[1].expr.if_block) = 0

\* faulty variant: the last statement of the block (`return;`) is not omitted
IfContentKeepsReturn(statements) ==
    IF statements # <<>> /\ IsConfigRunIf(statements[1])
    THEN [some |-> TRUE,
          stream |-> StatementsTokens(statements[1].expr.if_block)]
    ELSE [some |-> FALSE, stream |-> <<>>]

\* if_content: Some(tokens of the block minus its last statement) | None
IfContent(statements) ==
    IF statements # <<>> /\ IsConfigRunIf(statements[1])
    THEN LET block == statements[1].expr.if_block
         IN  [some |-> TRUE,
              stream |-> StatementsTokens(SubSeq(block, 1, Len(block) - 1))]
    ELSE [some |-> FALSE, stream |-> <<>>]

\* faulty variant: the first statement is skipped whether or not it is a config check
RemainingDropsFirst(statements) ==
    IF statements = <<>> THEN <<>> ELSE Tail(statements)

\* `&statements[1..]` when a config check was found, else `&statements[..]`
Remaining(statements) ==
    IF IfContent(statements).some THEN Tail(statements) ELSE statements

\* faulty variant: the new statements are placed ahead of the previous content
SynthesisPrepends(attrs, vis, declaration, if_content, config_statements, statements) ==
    attrs \o vis \o declaration \o <<"{">>
        \o <<"if", "snforge_std", "::", "_internals", "::", "_is_config_run",
             "(", ")", "{">>
        \o config_statements \o if_content \o <<"return", ";">> \o <<"}">>
        \o statements \o <<"}">>

\* faulty variant: the early return is emitted ahead of the new statements
SynthesisReturnsEarly(attrs, vis, declaration, if_content, config_statements, statements) ==
    attrs \o vis \o declaration \o <<"{">>
        \o <<"if", "snforge_std", "::", "_internals", "::", "_is_config_run",
             "(", ")", "{">>
        \o if_content \o <<"return", ";">> \o config_statements \o <<"}">>
        \o statements \o <<"}">>

\* the final quote!: attrs, vis, declaration and the body
Synthesis(attrs, vis, declaration, if_content, config_statements, statements) ==
    attrs \o vis \o declaration \o <<"{">>
        \o <<"if", "snforge_std", "::", "_internals", "::", "_is_config_run",
             "(", ")", "{">>
        \o if_content \o config_statements \o <<"return", ";">> \o <<"}">>
        \o statements \o <<"}">>

\* faulty variant: the attribute list of the function is not re-emitted
append_config_statements_without_attrs(func, config_statements) ==
    Synthesis(<<>>, func.visibility, func.declaration,
              IfContent(func.body).stream,
              config_statements,
              StatementsTokens(Remaining(func.body)))

append_config_statements(func, config_statements) ==
    Synthesis(func.attributes, func.visibility, func.declaration,
              IfContent(func.body).stream,      \* unwrap_or_else(empty)
              config_statements,
              StatementsTokens(Remaining(func.body)))

\* faulty variant: the intrinsic is called before the value is serialized
ConfigCheatcodeCallsFirst(k) ==
    <<"let", "data", ";">>
        \o <<CheatcodeToken(k), ";">>
        \o ValueTokens(k) \o <<".", "serialize", "(", ")", ";">>

\* the quote! of with_config_cheatcodes for collector kind k
ConfigCheatcode(k) ==
    <<"let", "data", ";">>
        \o ValueTokens(k) \o <<".", "serialize", "(", ")", ";">>
        \o <<CheatcodeToken(k), ";">>

\* ------------------------------------------------------- input functions
\* Syntactically valid annotated functions, as token streams.
LetA == <<"let", "a", ";">>
LetB == <<"let", "b", ";">>
CallF == <<"f", "(", ")", ";">>
Return == <<"return", ";">>

IfTokens(cond, block, els) == <<"if">> \o cond \o <<"{">> \o block \o <<"}">> \o els

SentinelCall ==
    <<"snforge_std", "::", "_internals", "::", "_is_config_run", "(", ")">>

\* conditions that are not a call of the three-segment sentinel path
OtherConds ==
    { <<"_internals", "::", "_is_config_run", "(", ")">>,
      <<"x", "::", "snforge_std", "::", "_internals", "::", "_is_config_run", "(", ")">>,
      <<"snforge", "::", "_internals", "::", "_is_config_run", "(", ")">>,
      <<"snforge_std", "::", "internals", "::", "_is_config_run", "(", ")">>,
      <<"snforge_std", "::", "_internals", "::", "is_config_run", "(", ")">>,
      <<"snforge_std", "::", "_internals", "::", "_is_config_run">>,
      <<"let", "p", "=">> \o SentinelCall }

\* interiors of an input guard: as left by earlier expansions, empty, or
\* hand-written without the terminal return
Blocks ==
    { <<>>, Return, LetA \o Return, LetA \o LetB \o Return,
      LetB \o LetA \o Return, LetA }

Elses == { <<>>, <<"else", "{">> \o LetB \o <<"}">> }

FirstStatements ==
    {IfTokens(SentinelCall, b, e) : b \in Blocks, e \in Elses}
        \cup {IfTokens(c, LetA \o Return, <<>>) : c \in OtherConds}
        \cup {LetB, CallF}

RestStatements == {LetA, IfTokens(SentinelCall, LetB \o Return, <<>>)}

RECURSIVE SeqsUpTo(_, _)
SeqsUpTo(S, n) ==
    IF n = 0 THEN {<<>>}
    ELSE SeqsUpTo(S, n - 1)
            \cup {<<x>> \o t : x \in S, t \in {u \in SeqsUpTo(S, n - 1) : Len(u) = n - 1}}

Rests == {Concat(r) : r \in SeqsUpTo(RestStatements, MaxRest)}

Bodies == {<<>>} \cup {f \o r : f \in FirstStatements, r \in Rests}

Heads == { <<"fn", "f", "(", ")">>, <<"#[test]", "pub", "fn", "f", "(", ")">> }

Inputs == {h \o <<"{">> \o b \o <<"}">> : h \in Heads, b \in Bodies}

\* ------------------------------------------------------------- splicer spec
SerIdle ==
    /\ ty = "" /\ value = Nil /\ tokens = <<>> /\ evaluated = Nil
    /\ phase = "idle"

Init ==
    /\ source \in Inputs
    /\ item = source
    /\ prev = <<>>
    /\ config = <<>>
    /\ applied = <<>>
    /\ status = "ok"
    /\ collected = Nil
    /\ diagnostics = <<>>
    /\ SerIdle
    /\ CastIdle
    /\ ParseIdle

\* what `Collector::args_into_config_expression(args_db, args, warns)` can
\* return for the collector of kind k: the configuration value expression,
\* or the diagnostics of the rejected arguments
CollectorResults(k) ==
    { [tag |-> "Ok", value |-> ValueTokens(k), diagnostics |-> <<>>],
      [tag |-> "Err", value |-> <<>>, diagnostics |-> <<k, "invalid arguments">>] }

\* faulty variant: a collector error does not end the function
with_config_cheatcodes_unchecked(func, k, collected_value) ==
    IF IfContentPanics(func.body)
    THEN [tag |-> "Panic", stream |-> <<>>, diagnostics |-> <<>>,
          config |-> ConfigCheatcode(k)]
    ELSE [tag |-> "Ok",
          stream |-> append_config_statements(func, ConfigCheatcode(k)),
          diagnostics |-> <<>>, config |-> ConfigCheatcode(k)]

\* with_config_cheatcodes::<Collector>: `?` on the collector's result, then
\* the quote! of the config statements, then append_config_statements
with_config_cheatcodes(func, k, collected_value) ==
    IF collected_value.tag = "Err"
    THEN [tag |-> "Err", stream |-> <<>>, diagnostics |-> collected_value.diagnostics,
          config |-> <<>>]
    ELSE IF IfContentPanics(func.body)
    THEN [tag |-> "Panic", stream |-> <<>>, diagnostics |-> <<>>,
          config |-> ConfigCheatcode(k)]
    ELSE [tag |-> "Ok",
          stream |-> append_config_statements(func, ConfigCheatcode(k)),
          diagnostics |-> <<>>, config |-> ConfigCheatcode(k)]

\* the state after an expansion that returned `result`
Expanded(k, collected_value, result) ==
    /\ collected' = collected_value
    /\ diagnostics' = result.diagnostics
    /\ IF result.tag = "Ok"
       THEN /\ item' = result.stream
            /\ prev' = item
            /\ config' = result.config
            /\ applied' = Append(applied, k)
            /\ UNCHANGED status
       ELSE /\ status' = IF result.tag = "Err" THEN "rejected" ELSE "panicked"
            /\ prev' = IF result.tag = "Err" THEN prev ELSE item
            /\ config' = IF result.tag = "Err" THEN config ELSE result.config
            /\ UNCHANGED <<item, applied>>

\* extend_with_config_cheatcodes::<Collector> for the collector of kind k:
\* parse the item, collect the arguments, splice the config statements in.
extend_with_config_cheatcodes(k) ==
    /\ status = "ok"
    /\ Len(applied) < MaxApply
    /\ parse(item).tag = "Ok"
    /\ \E collected_value \in CollectorResults(k) :
          Expanded(k, collected_value, with_config_cheatcodes(parse(item).func, k, collected_value))
    /\ UNCHANGED <<source, serVars, castVars, parseVars>>

Next == \E k \in Kinds : extend_with_config_cheatcodes(k)

Spec == Init /\ [][Next]_vars

\* ------------------------------------------------------ cairo_expression.rs
\* Values of the types built from a primitive by Option<_> and Vec<_>.
\* A value is [tag, lit, elems]: Prim (lit), None, Some (one elem), Vec.
Types ==
    { "u8", "Option<u8>", "Vec<u8>", "Option<Option<u8>>", "Option<Vec<u8>>",
      "Vec<Option<u8>>", "Vec<Vec<u8>>" }

Kind(t) ==
    CASE t = "u8" -> "Prim"
      [] t \in {"Option<u8>", "Option<Option<u8>>", "Option<Vec<u8>>"} -> "Option"
      [] OTHER -> "Vec"

Inner(t) ==
    CASE t \in {"Option<u8>", "Vec<u8>"} -> "u8"
      [] t \in {"Option<Option<u8>>", "Vec<Option<u8>>"} -> "Option<u8>"
      [] OTHER -> "Vec<u8>"

PrimLits == {"1", "2"}

NoValue == [tag |-> "Nil", lit |-> "", elems |-> <<>>]
PrimValue(l) == [tag |-> "Prim", lit |-> l, elems |-> <<>>]
NoneValue == [tag |-> "None", lit |-> "", elems |-> <<>>]
SomeValue(v) == [tag |-> "Some", lit |-> "", elems |-> <<v>>]
VecValue(es) == [tag |-> "Vec", lit |-> "", elems |-> es]

RECURSIVE ValuesOf(_)
ValuesOf(t) ==
    CASE Kind(t) = "Prim" -> {PrimValue(l) : l \in PrimLits}
      [] Kind(t) = "Option" ->
            {NoneValue} \cup {SomeValue(v) : v \in ValuesOf(Inner(t))}
      [] OTHER -> {VecValue(es) : es \in SeqsUpTo(ValuesOf(Inner(t)), MaxLen)}

RECURSIVE as_cairo_expression(_), VecElements(_, _)

\* a primitive serializes to its own literal
PrimAsCairoExpression(v) == <<v.lit>>

\* faulty variant: the closing parenthesis of Option::Some( .. ) is not emitted
OptionUnclosed(v) ==
    IF v.tag = "Some"
    THEN <<"Option", "::", "Some", "(">> \o as_cairo_expression(v.elems[1])
    ELSE <<"Option", "::", "None">>

\* impl CairoExpression for Option<T>
OptionAsCairoExpression(v) ==
    IF v.tag = "Some"
    THEN <<"Option", "::", "Some", "(">> \o as_cairo_expression(v.elems[1])
            \o <<")">>
    ELSE <<"Option", "::", "None">>

\* faulty variant: the separator is pushed between elements only, not after the last
VecElementsJoined(result, es) ==
    IF es = <<>> THEN result
    ELSE VecElements(result \o as_cairo_expression(Head(es))
                        \o (IF Tail(es) = <<>> THEN <<>> ELSE <<",">>),
                     Tail(es))

\* faulty variant: no separator is pushed
VecElementsUnseparated(result, es) ==
    IF es = <<>> THEN result
    ELSE VecElements(result \o as_cairo_expression(Head(es)), Tail(es))

\* the `for e in self` loop: extend with the element, push ","
VecElements(result, es) ==
    IF es = <<>> THEN result
    ELSE VecElements(result \o as_cairo_expression(Head(es)) \o <<",">>, Tail(es))

\* impl CairoExpression for Vec<T>
VecAsCairoExpression(v) == VecElements(<<"array![">>, v.elems) \o <<"]">>

\* trait CairoExpression: dispatch on the implementing type
as_cairo_expression(v) ==
    CASE v.tag \in {"Some", "None"} -> OptionAsCairoExpression(v)
      [] v.tag = "Vec" -> VecAsCairoExpression(v)
      [] OTHER -> PrimAsCairoExpression(v)

\* The target language building a value from an expression:
\*   expr := literal | Option::None | Option::Some( expr )
\*         | array![ (expr ("," expr)* [","])? ]
\* Results are [value(s), next, ok].
EvalFail(i) == [value |-> NoValue, next |-> i, ok |-> FALSE]

SomeFrom(ts, r) ==
    [value |-> SomeValue(r.value), next |-> r.next + 1,
     ok |-> r.ok /\ Tok(ts, r.next) = ")"]

ArrayFrom(r) == [value |-> VecValue(r.value), next |-> r.next, ok |-> r.ok]

ElementsFrom(e, r) ==
    [value |-> <<e.value>> \o r.value, next |-> r.next, ok |-> e.ok /\ r.ok]

RECURSIVE EvalExpr(_, _), EvalElements(_, _), ElementsAfter(_, _)

\* the elements from token i up to and including the closing "]"
EvalElements(ts, i) ==
    IF Tok(ts, i) = "]"
    THEN [value |-> <<>>, next |-> i + 1, ok |-> TRUE]
    ELSE ElementsAfter(ts, EvalExpr(ts, i))

ElementsAfter(ts, e) ==
    IF ~e.ok THEN [value |-> <<>>, next |-> e.next, ok |-> FALSE]
    ELSE IF Tok(ts, e.next) = ","
         THEN ElementsFrom(e, EvalElements(ts, e.next + 1))
         ELSE ElementsFrom(e, [value |-> <<>>, next |-> e.next + 1,
                               ok |-> Tok(ts, e.next) = "]"])

EvalExpr(ts, i) ==
    CASE Tok(ts, i) \in PrimLits ->
            [value |-> PrimValue(ts[i]), next |-> i + 1, ok |-> TRUE]
      [] Tok(ts, i) = "array![" -> ArrayFrom(EvalElements(ts, i + 1))
      [] Tok(ts, i) = "Option" /\ Tok(ts, i + 1) = "::" ->
            IF Tok(ts, i + 2) = "None"
            THEN [value |-> NoneValue, next |-> i + 3, ok |-> TRUE]
            ELSE IF Tok(ts, i + 2) = "Some" /\ Tok(ts, i + 3) = "("
                 THEN SomeFrom(ts, EvalExpr(ts, i + 4))
                 ELSE EvalFail(i)
      [] OTHER -> EvalFail(i)

EvalResult(ts, r) == IF r.ok /\ r.next = Len(ts) + 1 THEN r.value ELSE NoValue

Eval(ts) == EvalResult(ts, EvalExpr(ts, 1))

\* ---------------------------------------------------------- serializer spec
SplicerIdle ==
    /\ source = <<>> /\ item = <<>> /\ prev = <<>> /\ config = <<>>
    /\ applied = <<>> /\ status = "idle"
    /\ collected = Nil /\ diagnostics = <<>>

InitSer ==
    /\ SplicerIdle
    /\ CastIdle
    /\ ParseIdle
    /\ ty \in Types
    /\ value \in ValuesOf(ty)
    /\ tokens = <<>>
    /\ evaluated = NoValue
    /\ phase = "input"

\* value.as_cairo_expression()
Serialize ==
    /\ phase = "input"
    /\ tokens' = as_cairo_expression(value)
    /\ phase' = "serialized"
    /\ UNCHANGED <<ty, value, evaluated, splicerVars, castVars, parseVars>>

\* the emitted expression is compiled and evaluated by the target language
Evaluate ==
    /\ phase = "serialized"
    /\ evaluated' = Eval(tokens)
    /\ phase' = "evaluated"
    /\ UNCHANGED <<ty, value, tokens, splicerVars, castVars, parseVars>>

NextSer == Serialize \/ Evaluate

SpecSer == InitSer /\ [][NextSer]_vars

\* ------------------------------------------------------------------- sncast
\* helpers/config.rs, main.rs, starknet_commands/account/mod.rs.
\* Urls and file paths that are only copied are strings; an account is a
\* sequence of characters, because its file stem is computed from it.

\* Option<T> with Option::or and unwrap_or
OptNone == [some |-> FALSE]

OptSome(x) == [some |-> TRUE, v |-> x]

Or(self, other) == IF self.some THEN self ELSE other

UnwrapOr(self, default) == IF self.some THEN self.v ELSE default

\* a table of sncast properties: [tool.sncast] itself or one profile
Table(url, account, keystore, accountsFile) ==
    [url |-> url, account |-> account, keystore |-> keystore,
     accounts_file |-> accountsFile]

EmptyTable == Table(OptNone, OptNone, OptNone, OptNone)

\* the section `[tool.sncast.<name>]` with its properties
Section(name, table) == [name |-> name, table |-> table]

\* Scarb.toml: the properties of [tool.sncast] and the profile sections in
\* the order of the file
ScarbToml(root, sections) == [root |-> root, sections |-> sections]

SectionsNamed(toml, name) ==
    {n \in 1..Len(toml.sections) : toml.sections[n].name = name}

\* get_scarb_metadata: scarb reads the manifest; a manifest that defines a
\* table twice is not valid TOML and yields an error
get_scarb_metadata(toml) ==
    \A n \in 1..Len(toml.sections) :
        SectionsNamed(toml, toml.sections[n].name) = {n}

\* get_package_tool_sncast: Err when the package has no [tool.sncast]
get_package_tool_sncast(toml) ==
    toml.root # EmptyTable \/ toml.sections # <<>>

\* tool_sncast.get(name) on the parsed manifest
Get(toml, name) ==
    IF SectionsNamed(toml, name) = {}
    THEN OptNone
    ELSE OptSome(toml.sections[CHOOSE n \in SectionsNamed(toml, name) : TRUE].table)

\* get_profile: [tool.sncast] itself, or the table of the named profile
get_profile(toml, profile) ==
    IF profile.some THEN Get(toml, profile.v) ELSE OptSome(toml.root)

CastConfigBuilder(rpc_url, account, accountsFile, keystore) ==
    [rpc_url |-> rpc_url, account |-> account, accounts_file |-> accountsFile,
     keystore |-> keystore]

Default == CastConfigBuilder(OptNone, OptNone, OptNone, OptNone)

Ok(v) == [tag |-> "Ok", v |-> v]

Err(message) == [tag |-> "Err", v |-> message]

from_package_tool_sncast(toml, profile) ==
    IF ~ get_profile(toml, profile).some
    THEN Err("No field [tool.sncast.<profile>] found in package")
    ELSE Ok(CastConfigBuilder(get_profile(toml, profile).v.url,
                              get_profile(toml, profile).v.account,
                              get_profile(toml, profile).v.accounts_file,
                              get_profile(toml, profile).v.keystore))

\* CastConfigBuilder::from_scarb on an existing manifest
from_scarb(profile, toml) ==
    IF ~ get_scarb_metadata(toml) THEN Err("Failed to read Scarb.toml manifest file")
    ELSE IF ~ get_package_tool_sncast(toml) THEN Ok(Default)
    ELSE from_package_tool_sncast(toml, profile)

\* CastConfigBuilder::merge: every field is self.field.or(other.field)
merge(self, other) ==
    CastConfigBuilder(Or(self.rpc_url, other.rpc_url),
                      Or(self.account, other.account),
                      Or(self.accounts_file, other.accounts_file),
                      Or(self.keystore, other.keystore))

DEFAULT_ACCOUNTS_FILE == "~/.starknet_accounts/starknet_open_zeppelin_accounts.json"

\* AccountInfo::new
AccountInfo(account, keystore, accountsFile) ==
    IF keystore.some
    THEN IF account.some
         THEN Ok([tag |-> "Keystore", account |-> account.v, keystore |-> keystore.v])
         ELSE Err("Account name not passed nor found in Scarb.toml")
    ELSE Ok([tag |-> "AccountsFile", account |-> account, accounts_file |-> accountsFile])

\* CastConfigBuilder::build
build(self) ==
    IF AccountInfo(self.account, self.keystore,
                   UnwrapOr(self.accounts_file, DEFAULT_ACCOUNTS_FILE)).tag = "Err"
    THEN AccountInfo(self.account, self.keystore,
                     UnwrapOr(self.accounts_file, DEFAULT_ACCOUNTS_FILE))
    ELSE IF ~ self.rpc_url.some
    THEN Err("RPC url not passed nor found in Scarb.toml")
    ELSE Ok([rpc_url |-> self.rpc_url.v,
             account_info |-> AccountInfo(self.account, self.keystore,
                     UnwrapOr(self.accounts_file, DEFAULT_ACCOUNTS_FILE)).v])

\* Cli::to_config_builder
to_config_builder(cli) ==
    CastConfigBuilder(cli.rpc_url, cli.account, cli.accounts_file_path, cli.keystore)

\* the config of main: from_scarb(..)?.merge(cli.to_config_builder()).build()?
MainConfig(cli, toml) ==
    IF from_scarb(cli.profile, toml).tag = "Err"
    THEN from_scarb(cli.profile, toml)
    ELSE build(merge(from_scarb(cli.profile, toml).v, to_config_builder(cli)))

\* ------------------------------------------------------------ sncast inputs
AccountA == <<"a">>
AccountB == <<"b">>
\* a path to an account file (keystore mode), as in dir/acc.json
AccountPath == <<"d", "/", "a", ".", "j">>

TomlUrl == "http://toml"
CliUrl == "http://cli"

\* manifests as the user wrote them
ScarbTomls ==
    { ScarbToml(EmptyTable, <<>>),
      ScarbToml(Table(OptSome(TomlUrl), OptNone, OptNone, OptNone), <<>>),
      ScarbToml(EmptyTable,
                <<Section(AccountA, Table(OptSome(TomlUrl), OptSome(AccountB),
                                          OptNone, OptSome("accounts")))>>),
      ScarbToml(EmptyTable,
                <<Section(AccountA, Table(OptSome(TomlUrl), OptNone, OptNone, OptNone))>>) }

Clis ==
    { [profile |-> p, rpc_url |-> u, account |-> OptNone, keystore |-> k,
       accounts_file_path |-> OptNone] :
        p \in {OptNone, OptSome(AccountA)}, u \in {OptNone, OptSome(CliUrl)},
        k \in {OptNone, OptSome("keystore")} }

\* ------------------------------------------------------- the accounts file
\* serde_json values: null, or the object prepare_account_json builds
JsonNull == [json |-> "null"]

AccountJson(address) == [json |-> "object", address |-> address]

\* chain_id_to_network_name
chain_id_to_network_name(chain_id) ==
    IF chain_id = "SN_GOERLI" THEN "alpha-goerli" ELSE "alpha-mainnet"

\* the accounts file: absent, or a JSON object network -> account -> value
Absent == [exists |-> FALSE, items |-> <<>>]

Present(items) == [exists |-> TRUE, items |-> items]

\* `items[&network_name][account]` read: Value::Null for a missing key
Index(items, network_name, account) ==
    IF network_name \in DOMAIN items
    THEN IF account \in DOMAIN items[network_name]
         THEN items[network_name][account]
         ELSE JsonNull
    ELSE JsonNull

AccountsOf(items, network_name) ==
    IF network_name \in DOMAIN items THEN DOMAIN items[network_name] ELSE {}

\* `items[&network_name][account] = account_json`: missing keys are inserted
IndexAssign(items, network_name, account, account_json) ==
    [n \in DOMAIN items \cup {network_name} |->
        IF n = network_name
        THEN [a \in AccountsOf(items, n) \cup {account} |->
                IF a = account THEN account_json ELSE items[n][a]]
        ELSE items[n]]

\* faulty variant: the entry is looked up in every network
IsNullInEveryNetwork(items, network_name, account) ==
    \A n \in DOMAIN items \cup {network_name} : Index(items, n, account) = JsonNull

\* `items[&network_name][account].is_null()`
IsNull(items, network_name, account) ==
    Index(items, network_name, account) = JsonNull

\* the contents read at line 74: "{}" was written when the file was absent
Contents(file) == IF file.exists THEN file.items ELSE <<>>

\* what write_account_to_accounts_file returns and leaves in the file
WriteAccount(file, account, network_name, account_json) ==
    IF ~ IsNull(Contents(file), network_name, account)
    THEN [returned |-> Err("Account with name = <account> already exists in network"),
          file |-> Present(Contents(file))]
    ELSE [returned |-> Ok("()"),
          file |-> Present(IndexAssign(Contents(file), network_name, account,
                                       account_json))]

ChainIds == {"SN_GOERLI", "SN_MAIN"}

AccountJsons == {AccountJson("0x1"), AccountJson("0x2")}

AccountNames == {AccountA, AccountB}

AccountsFiles ==
    { Absent,
      Present(<<>>),
      Present("alpha-goerli" :> (AccountA :> AccountJson("0x3"))),
      Present("alpha-goerli" :> (AccountA :> JsonNull)) }

\* -------------------------------------------------- profiles in Scarb.toml
\* the characters after the last `c` of s start at LastIndexOf(s, c) + 1
LastIndexOf(s, c) ==
    IF \E i \in 1..Len(s) : s[i] = c
    THEN CHOOSE i \in 1..Len(s) : s[i] = c /\ \A j \in (i + 1)..Len(s) : s[j] # c
    ELSE 0

\* Utf8Path::file_name: the last component, unless the path ends in `..`
file_name(path) ==
    IF SubSeq(path, LastIndexOf(path, "/") + 1, Len(path)) \in {<<>>, <<".">>, <<".", ".">>}
    THEN OptNone
    ELSE OptSome(SubSeq(path, LastIndexOf(path, "/") + 1, Len(path)))

\* the file name up to its last `.`, the whole name if it has none or only
\* starts with one
StemOf(name) ==
    IF LastIndexOf(name, ".") <= 1 THEN name
    ELSE SubSeq(name, 1, LastIndexOf(name, ".") - 1)

\* Utf8Path::file_stem
file_stem(path) ==
    IF file_name(path).some THEN OptSome(StemOf(file_name(path).v)) ELSE OptNone

\* `config.account.clone().unwrap_or_default()`
AccountName(builder) == UnwrapOr(builder.account, <<>>)

\* the existence check of lines 106-116: a profile named as the account,
\* having an `account` property
ProfileExists(toml, builder) ==
    /\ get_package_tool_sncast(toml)
    /\ Get(toml, AccountName(builder)).some
    /\ Get(toml, AccountName(builder)).v.account.some

\* new_profile: url, account, and keystore or else accounts-file
NewProfile(builder) ==
    Table(OptSome(UnwrapOr(builder.rpc_url, "")),
          OptSome(AccountName(builder)),
          IF builder.keystore.some THEN builder.keystore ELSE OptNone,
          IF builder.keystore.some THEN OptNone
          ELSE OptSome(UnwrapOr(builder.accounts_file, "")))

\* profile_name: `account_path.file_stem().unwrap_or(&account_name)`
ProfileName(builder) == UnwrapOr(file_stem(AccountName(builder)), AccountName(builder))

\* what add_created_profile_to_configuration returns and leaves in Scarb.toml
AddProfile(toml, builder) ==
    IF ~ get_scarb_metadata(toml)
    THEN [returned |-> Err("Failed to read Scarb.toml manifest file"), toml |-> toml]
    ELSE IF ProfileExists(toml, builder)
    THEN [returned |-> Err("Failed to add profile to the Scarb.toml. Profile already exists"),
          toml |-> toml]
    ELSE [returned |-> Ok("()"),
          toml |-> ScarbToml(toml.root,
                             Append(toml.sections,
                                    Section(ProfileName(builder), NewProfile(builder))))]

\* the configs the account commands pass: accounts-file mode with an account
\* name, keystore mode with a path to the account file
Configs ==
    { CastConfigBuilder(OptSome(CliUrl), OptSome(a), OptSome("accounts"), k) :
        a \in {AccountA, AccountPath}, k \in {OptNone, OptSome("keystore")} }

\* -------------------------------------------------------------- sncast spec
InitCast ==
    /\ SplicerIdle
    /\ SerIdle
    /\ ParseIdle
    /\ scarb_toml \in ScarbTomls
    /\ accounts_file \in AccountsFiles
    /\ call = [op |-> "none"]
    /\ returned = Nil
    /\ first_written = <<>>
    /\ calls = 0

\* one run of sncast up to the construction of its config
main(cli) ==
    /\ calls < MaxCalls
    /\ call' = [op |-> "main", cli |-> cli]
    /\ returned' = MainConfig(cli, scarb_toml)
    /\ calls' = calls + 1
    /\ UNCHANGED <<scarb_toml, accounts_file, first_written, splicerVars, serVars, parseVars>>

FirstWritten(written, key, account_json) ==
    IF key \in DOMAIN written THEN written ELSE written @@ (key :> account_json)

write_account_to_accounts_file(account, chain_id, account_json) ==
    /\ calls < MaxCalls
    /\ call' = [op |-> "write_account_to_accounts_file", account |-> account,
                network_name |-> chain_id_to_network_name(chain_id),
                account_json |-> account_json, before |-> accounts_file]
    /\ returned' = WriteAccount(accounts_file, account,
                                chain_id_to_network_name(chain_id), account_json).returned
    /\ accounts_file' = WriteAccount(accounts_file, account,
                                     chain_id_to_network_name(chain_id), account_json).file
    /\ first_written' =
          IF returned'.tag = "Ok"
          THEN FirstWritten(first_written,
                            <<chain_id_to_network_name(chain_id), account>>, account_json)
          ELSE first_written
    /\ calls' = calls + 1
    /\ UNCHANGED <<scarb_toml, splicerVars, serVars, parseVars>>

add_created_profile_to_configuration(builder) ==
    /\ calls < MaxCalls
    /\ call' = [op |-> "add_created_profile_to_configuration", config |-> builder,
                before |-> scarb_toml]
    /\ returned' = AddProfile(scarb_toml, builder).returned
    /\ scarb_toml' = AddProfile(scarb_toml, builder).toml
    /\ calls' = calls + 1
    /\ UNCHANGED <<accounts_file, first_written, splicerVars, serVars, parseVars>>

NextCast ==
    \/ \E cli \in Clis : main(cli)
    \/ \E account \in AccountNames, chain_id \in ChainIds, account_json \in AccountJsons :
          write_account_to_accounts_file(account, chain_id, account_json)
    \/ \E c \in Configs : add_created_profile_to_configuration(c)

SpecCast == InitCast /\ [][NextCast]_vars

\* ------------------------------------------------------- parse.rs: callers
\* the declaration `fn <name> ( )` of a parsed function names it
FunctionName(func) == func.declaration[2]

\* QueryAttrs::find_attr on the attribute list of a function: the
\* arguments of the first attribute `# [ attr_name .. ]`
RECURSIVE find_attr(_, _)
find_attr(attrs, attr_name) ==
    IF attrs = <<>> \/ AttrEnd(attrs, 1) = 1 THEN OptNone
    ELSE IF attrs[1] = "#" /\ attrs[3] = attr_name THEN OptSome(ArgumentsAt(attrs, 4))
    ELSE IF attrs[1] = "#[test]" /\ attr_name = "test"
    THEN OptSome(ArgList("Empty", attrs, 1, 1))
    ELSE find_attr(SubSeq(attrs, AttrEnd(attrs, 1), Len(attrs)), attr_name)

ATTR_NAME == "__SNFORGE_INTERNAL_ATTR__"

\* the quote! of parse_args
InternalCode(args) ==
    <<"#", "[", ATTR_NAME>> \o args
        \o <<"]", "fn", "__SNFORGE_INTERNAL_FN__", "(", ")", "{", "}">>

\* argument tokens as the compiler hands them to the plugin: nothing, or
\* one parenthesised list
Prevalidated(args) ==
    \/ args = <<>>
    \/ /\ args[1] = "("
       /\ MatchingParen(args, 2, 1) = Len(args)
       /\ \A n \in 1..Len(args) : args[n] \notin {"[", "]", "#"}

\* what parse::<InternalCollector>(&code) can return to parse_args: the
\* parse of the unit; for argument tokens outside the grammar the parser
\* reports diagnostics (ignored by parse) and recovers with a tree that
\* holds no function, the function without the attribute, or with it
InternalParses(args) ==
    IF Prevalidated(args)
    THEN {parse(InternalCode(args))}
    ELSE {parse(<<>>), parse(InternalCode(<<>>)),
          parse(<<"fn", "__SNFORGE_INTERNAL_FN__", "(", ")", "{", "}">>)}

Panic(message) ==
    [tag |-> "Panic", message |-> message, function |-> "", arguments |-> Nil]

\* parse_args after the parse of the synthetic unit: expect, find_attr,
\* unwrap, arguments
parse_args(parsed) ==
    IF parsed.tag = "Err"
    THEN Panic("Parsing the arguments shouldn't fail at this stage")
    ELSE IF ~ find_attr(parsed.func.attributes, ATTR_NAME).some
    THEN Panic("called Option::unwrap() on a None value")
    ELSE [tag |-> "Args", message |-> "", function |-> FunctionName(parsed.func),
          arguments |-> find_attr(parsed.func.attributes, ATTR_NAME).v]

\* ------------------------------------------------------------ parser inputs
FreeFunction(name, tokens_) == [kind |-> "FreeFunction", name |-> name, text |-> tokens_]

OtherItem(tokens_) == [kind |-> "Other", name |-> "", text |-> tokens_]

Items ==
    { FreeFunction("f", <<"fn", "f", "(", ")", "{", "}">>),
      FreeFunction("g", <<"#[test]", "pub", "fn", "g", "(", ")", "{", "let", "a", ";", "}">>),
      OtherItem(<<"mod", "m", ";">>),
      OtherItem(<<"#[test]", "pub", "struct", "S", "{", "}">>),
      OtherItem(<<"x">>) }

Units == SeqsUpTo(Items, MaxItems)

UnitTokens(unit) == Concat([n \in 1..Len(unit) |-> unit[n].text])

ArgStreams ==
    { <<>>, <<"(", ")">>, <<"(", "1", ")">>, <<"(", "a", ":", "1", ",", "2", ")">>,
      <<"(", "f", "(", "1", ")", ")">>,
      <<"(">>, <<"1">>, <<"(", ")", "]", "fn", "g", "(", ")", "{", "}", "#", "[", "x">> }

\* -------------------------------------------------------------- parser spec
ParseCalls ==
    {[op |-> "parse", unit |-> unit, args |-> <<>>] : unit \in Units}
        \cup {[op |-> "parse_args", unit |-> <<>>, args |-> args] : args \in ArgStreams}

InitParse ==
    /\ SplicerIdle
    /\ SerIdle
    /\ CastIdle
    /\ parse_call \in ParseCalls
    /\ parse_returned = Nil

\* parse::<T>(code) on the tokens of the unit
Parse ==
    /\ parse_call.op = "parse"
    /\ parse_returned = Nil
    /\ parse_returned' =
          IF parse(UnitTokens(parse_call.unit)).tag = "Ok"
          THEN [tag |-> "Ok", func |-> parse(UnitTokens(parse_call.unit)).func,
                diagnostic |-> ""]
          ELSE [tag |-> "Err", func |-> Nil,
                diagnostic |-> "can be used only on a function"]
    /\ UNCHANGED <<parse_call, splicerVars, serVars, castVars>>

\* parse_args(args)
ParseArgs ==
    /\ parse_call.op = "parse_args"
    /\ parse_returned = Nil
    /\ \E parsed \in InternalParses(parse_call.args) :
          parse_returned' = parse_args(parsed)
    /\ UNCHANGED <<parse_call, splicerVars, serVars, castVars>>

NextParse == Parse \/ ParseArgs

SpecParse == InitParse /\ [][NextParse]_vars

\* ------------------------------------------------- vocabulary of the claims
\* The last expansion returned an output: `item` was produced from `prev`
\* and `config`.
Spliced == status = "ok" /\ applied # <<>>

\* the parse results of the function as written, of the function the last
\* expansion consumed, and of its output
Src == parse(source)
In == parse(prev)
Out == parse(item)

WellFormed(p) == p.tag = "Ok" /\ p.wellformed

Body(p) == p.func.body

\* a statement whose source text opens with `if <sentinel call> {`
GuardOpening == <<"if">> \o SentinelCall \o <<"{">>

IsGuardText(text) ==
    Len(text) >= Len(GuardOpening) /\ SubSeq(text, 1, Len(GuardOpening)) = GuardOpening

\* the text of a guard without else branch around the given interior
GuardAround(interior) == GuardOpening \o interior \o <<"}">>

GuardCount(body) == Cardinality({n \in 1..Len(body) : IsGuardText(body[n].text)})

Interior(stmt) == stmt.expr.if_block

Last(seq) == seq[Len(seq)]

Front(seq) == SubSeq(seq, 1, Len(seq) - 1)

TextOf(stmts) == Concat([n \in 1..Len(stmts) |-> stmts[n].text])

\* the generated groups of all expansions so far, in application order
Groups == Concat([n \in 1..Len(applied) |-> ConfigCheatcode(applied[n])])

ReturnCount(stmts) == Cardinality({n \in 1..Len(stmts) : stmts[n].tag = "Return"})

\* the first statement of a body opens as a sentinel guard
HasGuard(body) == body # <<>> /\ IsGuardText(body[1].text)

InputsWellFormed == prev = <<>> => WellFormed(Out)

\* ---------------------------------------------------------------- claims

AccumulationOn(src, out) ==
    GuardCount(Body(src)) = 0 =>
        /\ WellFormed(out)
        /\ Body(out) # <<>>
        /\ GuardCount(Body(out)) = 1
        /\ Body(out)[1].text = GuardAround(Groups \o Return)
        /\ ReturnCount(Interior(Body(out)[1])) = 1
        /\ Tail(Body(out)) = Body(src)

\* C1: starting from a function without any guarded block, N >= 1
\* expansions in sequence leave exactly one sentinel guard, first in the
\* body, whose interior is G1 .. GN in application order followed by exactly
\* one early return; the statements as written follow it.
C1_Accumulation == Spliced => AccumulationOn(Src, Out)

AccumulatedOn(src) == GuardCount(Body(src)) = 0 /\ Body(src) # <<>>

C1_Witness ==
    /\ Spliced /\ Len(applied) = 3 /\ applied[1] # applied[2]
    /\ AccumulatedOn(Src)

FirstApplicationOn(in, out) ==
    ~HasGuard(Body(in)) =>
        /\ WellFormed(out)
        /\ Len(Body(out)) = Len(Body(in)) + 1
        /\ Body(out)[1].text = GuardAround(config \o Return)
        /\ \A n \in 1..Len(Body(in)) : Body(out)[n + 1] = Body(in)[n]
        /\ GuardCount(Body(out)) = GuardCount(Body(in)) + 1

\* C2: one expansion of a function whose first statement is not a
\* recognised guard (body s1 .. sk, k >= 0) yields guard{G; return}, s1 .. sk.
C2_FirstApplication == Spliced => FirstApplicationOn(In, Out)

ThreeStatementsOn(in) ==
    /\ ~HasGuard(Body(in)) /\ Len(Body(in)) = 3
    /\ Body(in)[1] # Body(in)[2] /\ Body(in)[2] # Body(in)[3]

C2_Witness == Spliced /\ ThreeStatementsOn(In)

MergeOn(in, out) ==
    (/\ HasGuard(Body(in))
     /\ Interior(Body(in)[1]) # <<>>
     /\ Last(Interior(Body(in)[1])).tag = "Return") =>
        /\ WellFormed(out)
        /\ Len(Body(out)) = Len(Body(in))
        /\ Body(out)[1].text =
              GuardAround(TextOf(Front(Interior(Body(in)[1]))) \o config \o Return)
        /\ \A n \in 2..Len(Body(in)) : Body(out)[n] = Body(in)[n]
        /\ GuardCount(Body(out)) = GuardCount(Body(in))

\* C3: one expansion of a function that starts with a recognised guard of
\* interior x1 .. xm, return and continues r1 .. rk yields
\* guard{x1 .. xm; G; return}, r1 .. rk, and no second guard.
C3_Merge == Spliced => MergeOn(In, Out)

TwoInjectedOn(in) ==
    /\ HasGuard(Body(in))
    /\ TextOf(Interior(Body(in)[1])) = LetA \o LetB \o Return
    /\ Len(Body(in)) = 3

C3_Witness == Spliced /\ Len(applied) = 1 /\ TwoInjectedOn(In)

FrameOn(in, out) ==
    /\ out.tag = "Ok"
    /\ out.func.attributes = in.func.attributes
    /\ out.func.visibility = in.func.visibility
    /\ out.func.declaration = in.func.declaration
    /\ Body(out) # <<>>
    /\ Tail(Body(out)) = IF HasGuard(Body(in)) THEN Tail(Body(in)) ELSE Body(in)

\* C4: an expansion re-emits visibility, attribute list and declaration as
\* they were, and the statements outside the guard follow the guard
\* unchanged and in order.
C4_Frame == Spliced => FrameOn(In, Out)

FramedOn(in, out) ==
    /\ in.func.attributes # <<>> /\ in.func.visibility # <<>>
    /\ Len(Body(out)) = 3 /\ Body(out)[2] # Body(out)[3]

C4_Witness == Spliced /\ FramedOn(In, Out)

DetectionOn(in, out) ==
    IF status = "panicked"
    THEN HasGuard(Body(in))
    ELSE /\ WellFormed(out)
         /\ Body(out) # <<>>
         /\ IF HasGuard(Body(in))
            THEN /\ Len(Body(out)) = Len(Body(in))
                 /\ Tail(Body(out)) = Tail(Body(in))
            ELSE /\ Body(out)[1].text = GuardAround(config \o Return)
                 /\ Tail(Body(out)) = Body(in)

\* C5: the first statement is treated as the existing guard (its place is
\* taken by the merged guard) exactly when it is `if` on a call of the
\* three-segment sentinel path; otherwise the whole statement lands in the
\* remainder behind a fresh guard.  Later statements are never examined.
C5_Detection == (prev # <<>>) => DetectionOn(In, Out)

NearSentinelOn(in, out) ==
    /\ Len(Body(in)) = 2 /\ Len(Body(out)) = 3
    /\ Len(Body(in)[1].text) >= 6
    /\ SubSeq(Body(in)[1].text, 1, 6) =
           <<"if", "snforge_std", "::", "internals", "::", "_is_config_run">>
    /\ IsGuardText(Body(in)[2].text)
    /\ Body(out)[2] = Body(in)[1] /\ Body(out)[3] = Body(in)[2]

C5_Witness == Spliced /\ NearSentinelOn(In, Out)

\* C6: every expansion of a syntactically valid function returns an output
\* function; it never aborts.
C6_Total == (prev # <<>>) => (status # "panicked" /\ WellFormed(Out))

ReturnLastOn(out) ==
    /\ WellFormed(out)
    /\ Body(out) # <<>>
    /\ IsGuardText(Body(out)[1].text)
    /\ Interior(Body(out)[1]) # <<>>
    /\ Last(Interior(Body(out)[1])).tag = "Return"

\* C7: in the output of every expansion the first statement is the sentinel
\* guard and the last statement of its interior is the early return.
C7_ReturnLast == Spliced => ReturnLastOn(Out)

NoReturnWrittenOn(src) ==
    HasGuard(Body(src)) /\ TextOf(Interior(Body(src)[1])) = LetA

C7_Witness == Spliced /\ Len(applied) = 2 /\ NoReturnWrittenOn(Src)

Serialized == phase \in {"serialized", "evaluated"}

OptionRuleOn(v, out) ==
    IF v.tag = "None"
    THEN out = <<"Option", "::", "None">>
    ELSE /\ Len(out) >= 5
         /\ SubSeq(out, 1, 4) = <<"Option", "::", "Some", "(">>
         /\ SubSeq(out, 5, Len(out) - 1) = as_cairo_expression(v.elems[1])
         /\ Last(out) = ")"

\* C8: an absent optional serializes to the None literal, a present one to
\* Some( <what the inner value's own serializer produces> ), also for nested
\* optionals and optionals of sequences.
C8_Option == (Serialized /\ Kind(ty) = "Option") => OptionRuleOn(value, tokens)

C8_Witness ==
    /\ Serialized /\ ty = "Option<Vec<u8>>"
    /\ value = SomeValue(VecValue(<<PrimValue("1"), PrimValue("2")>>))

SeparatorCount(out) == Cardinality({n \in 1..Len(out) : out[n] = ","})

SequenceRuleOn(v, out) ==
    /\ Len(out) >= 2
    /\ Head(out) = "array!["
    /\ SubSeq(out, 2, Len(out) - 1) =
          Concat([n \in 1..Len(v.elems) |->
                     as_cairo_expression(v.elems[n]) \o <<",">>])
    /\ Last(out) = "]"
    /\ v.elems = <<>> => out = <<"array![", "]">>
    /\ ty = "Vec<u8>" => SeparatorCount(out) = Len(v.elems)

\* C9: a sequence of n elements serializes to the opening token, each
\* element's serialization followed by one separator (n separators, one
\* after the last element), and the closing token; the empty sequence to the
\* opening and closing tokens only.
C9_Sequence == (Serialized /\ Kind(ty) = "Vec") => SequenceRuleOn(value, tokens)

C9_Witness ==
    /\ Serialized /\ ty = "Vec<u8>"
    /\ value = VecValue(<<PrimValue("1"), PrimValue("2")>>)
    /\ tokens = <<"array![", "1", ",", "2", ",", "]">>

\* every value of each type, paired with its serialization
Serializations ==
    [t \in Types |-> {<<w, as_cairo_expression(w)>> : w \in ValuesOf(t)}]

\* C10: evaluating the serialized expression rebuilds the value, and no
\* other value of the same type serializes to the same tokens.
C10_RoundTrip ==
    /\ phase = "evaluated" => evaluated = value
    /\ Serialized =>
          \A p \in Serializations[ty] : p[2] = tokens => p[1] = value

C10_Witness ==
    /\ phase = "evaluated" /\ ty = "Vec<Option<u8>>"
    /\ value = VecValue(<<NoneValue, SomeValue(PrimValue("2"))>>)
    /\ evaluated = value

\* the step is an expansion whose collector rejected the arguments
Rejecting == collected'.tag = "Err"

\* the step has run append_config_statements and emitted its output
Splicing == applied' # applied \/ item' # item \/ config' # config

\* C11: when the collector rejects the arguments the expansion returns the
\* collector's diagnostics and nothing else (no output, no splicing, no
\* abort inside append_config_statements); an output is produced only by an
\* expansion whose collector succeeded, and it carries no diagnostics.
C11_Rejection ==
    [][ /\ Rejecting =>
            /\ status' = "rejected"
            /\ diagnostics' = collected'.diagnostics
            /\ diagnostics' # <<>>
            /\ ~ Splicing
        /\ Splicing => (collected'.tag = "Ok" /\ diagnostics' = <<>>) ]_vars

\* arguments rejected on a function whose guard would abort the splicer
C11_Witness ==
    /\ status = "rejected" /\ collected.tag = "Err"
    /\ diagnostics = <<"fuzzer", "invalid arguments">>
    /\ applied = <<>>
    /\ IfContentPanics(Body(Out))

\* the statements n-2, n-1, n are the group of kind k: buffer creation,
\* serialization of k's value, the intrinsic call named by k
GroupEndingAt(stmts, n, k) ==
    /\ stmts[n - 2].tag = "Let"
    /\ stmts[n - 2].text = <<"let", "data", ";">>
    /\ stmts[n - 1].tag = "Expr"
    /\ stmts[n - 1].text = ValueTokens(k) \o <<".", "serialize", "(", ")", ";">>
    /\ stmts[n].tag = "Expr"
    /\ stmts[n].text = <<CheatcodeToken(k), ";">>

IsIntrinsicCall(stmt) == stmt.text # <<>> /\ stmt.text[1] \in CheatcodeTokens

IntrinsicCalls(stmts) == {n \in 1..Len(stmts) : IsIntrinsicCall(stmts[n])}

\* the guard interior `stmts` ends with the groups of `kinds`, in order, and
\* the early return, and holds no other intrinsic call
GroupsOn(stmts, kinds) ==
    LET first == Len(stmts) - 3 * Len(kinds)
    IN  /\ first >= 1
        /\ \A n \in 1..Len(kinds) : GroupEndingAt(stmts, first - 1 + 3 * n, kinds[n])
        /\ IntrinsicCalls(stmts) = {first - 1 + 3 * n : n \in 1..Len(kinds)}
        /\ Cardinality(IntrinsicCalls(stmts)) = Len(kinds)

StackedOn(out) ==
    /\ WellFormed(out)
    /\ Body(out) # <<>>
    /\ Body(out)[1].tag = "Expr"
    /\ Body(out)[1].expr.tag = "If"
    /\ GroupsOn(Interior(Body(out)[1]), applied)

\* C12: each expansion of kind K contributes the three statements buffer
\* creation, serialization of K's value, intrinsic call named by K, in this
\* order; after N stacked expansions the guard holds exactly N intrinsic
\* calls, named K1..KN in application order, each directly preceded by its
\* own buffer creation and serialization.
C12_Groups == Spliced => StackedOn(Out)

C12_Witness ==
    /\ Spliced /\ applied = <<"fuzzer", "fork", "fuzzer">>
    /\ Len(Interior(Body(Out)[1])) = 11

\* the first statement is a recognised guard whose interior does not end
\* with an early return
NonReturnGuardOn(in) ==
    /\ Body(in) # <<>>
    /\ IsConfigRunIf(Body(in)[1])
    /\ Interior(Body(in)[1]) # <<>>
    /\ Last(Interior(Body(in)[1])).tag # "Return"

\* C15: an expansion that meets a recognised guard whose last interior
\* statement is not an early return fails loudly: it returns no output.
C15_FailsLoudly == (prev # <<>> /\ NonReturnGuardOn(In)) => status # "ok"

ElseBlock(stmt) ==
    IF stmt.expr.else_clause = Nil THEN <<>> ELSE stmt.expr.else_clause.block

Texts(stmts) == {stmts[n].text : n \in 1..Len(stmts)}

\* the interior of a guard without its terminal return
WithoutTerminalReturn(stmts) ==
    IF stmts # <<>> /\ Last(stmts).tag = "Return" THEN Front(stmts) ELSE stmts

\* the statements of a body: those of its recognised guard (interior and
\* else branch) and those at the top of the body
CodeOf(body) ==
    IF body # <<>> /\ IsConfigRunIf(body[1])
    THEN Texts(WithoutTerminalReturn(Interior(body[1])))
            \cup Texts(ElseBlock(body[1])) \cup Texts(Tail(body))
    ELSE Texts(body)

NothingLostOn(in, out) ==
    /\ WellFormed(out)
    /\ Body(out) # <<>>
    /\ CodeOf(Body(in)) \subseteq
           (Texts(Interior(Body(out)[1])) \cup Texts(ElseBlock(Body(out)[1]))
               \cup Texts(Tail(Body(out))))

\* C17: every statement of the input body other than the terminal return of
\* its recognised guard is a statement of the output, the statements of the
\* guard's else branch included.
C17_NothingLost == Spliced => NothingLostOn(In, Out)

\* the url that the profile selected by the command line has in Scarb.toml
SelectedUrl(cli, toml) ==
    IF get_package_tool_sncast(toml) /\ get_profile(toml, cli.profile).some
    THEN get_profile(toml, cli.profile).v.url
    ELSE OptNone

\* C13: the config built by main uses the url of the command line when
\* --url is given, and the url of the selected Scarb.toml profile only when
\* it is not.
C13_CliOverrides ==
    (call.op = "main" /\ returned.tag = "Ok") =>
        returned.v.rpc_url =
            IF call.cli.rpc_url.some
            THEN call.cli.rpc_url.v
            ELSE SelectedUrl(call.cli, scarb_toml).v

AddedProfile == call.op = "add_created_profile_to_configuration"

\* the table holds url and account of the config and exactly one of
\* keystore and accounts-file, keystore when the config has one
ProfileOf(table, builder) ==
    /\ table.url = OptSome(UnwrapOr(builder.rpc_url, ""))
    /\ table.account = OptSome(AccountName(builder))
    /\ table.keystore.some # table.accounts_file.some
    /\ table.keystore.some <=> builder.keystore.some

\* `after` is `before` with exactly one section appended
OneSectionAppended(before, after) ==
    /\ after.root = before.root
    /\ Len(after.sections) = Len(before.sections) + 1
    /\ Front(after.sections) = before.sections

\* [tool.sncast.<account>] with an account property is present
ProfilePresent(toml, account) ==
    \E n \in SectionsNamed(toml, account) : toml.sections[n].table.account.some

\* C14: the call fails with 'Profile already exists' and leaves Scarb.toml
\* unchanged when [tool.sncast.<account>] with an account property is
\* present; otherwise it succeeds and appends exactly one section holding
\* url, account and exactly one of keystore / accounts-file.
C14_AppendsIffAbsent ==
    AddedProfile =>
        IF ProfilePresent(call.before, AccountName(call.config))
        THEN /\ returned.tag = "Err"
             /\ scarb_toml = call.before
        ELSE /\ returned.tag = "Ok"
             /\ OneSectionAppended(call.before, scarb_toml)
             /\ ProfileOf(Last(scarb_toml.sections).table, call.config)

WroteAccount == call.op = "write_account_to_accounts_file"

\* every entry other than (network_name, account) reads the same in both
OthersUnchanged(before, after, network_name, account) ==
    \A n \in DOMAIN before \cup DOMAIN after :
        \A a \in AccountsOf(before, n) \cup AccountsOf(after, n) :
            <<n, a>> # <<network_name, account>> =>
                /\ n \in DOMAIN before /\ a \in AccountsOf(before, n)
                /\ n \in DOMAIN after /\ a \in AccountsOf(after, n)
                /\ after[n][a] = before[n][a]

NoOverwriteOn(before, after) ==
    IF Index(Contents(before), call.network_name, call.account) # JsonNull
    THEN /\ returned.tag = "Err"
         /\ after = before
    ELSE /\ returned.tag = "Ok"
         /\ after.exists
         /\ Index(after.items, call.network_name, call.account) = call.account_json
         /\ OthersUnchanged(Contents(before), after.items,
                            call.network_name, call.account)

FirstWritesKept ==
    \A key \in DOMAIN first_written :
        /\ accounts_file.exists
        /\ Index(accounts_file.items, key[1], key[2]) = first_written[key]

\* C18: a call for a (network, name) pair whose entry is not null fails and
\* leaves the accounts file unchanged; any other call adds exactly that
\* entry and changes no other; every entry written by a call keeps the
\* value of the first successful write.
C18_NoOverwrite ==
    /\ WroteAccount => NoOverwriteOn(call.before, accounts_file)
    /\ FirstWritesKept

\* a second write of another value to an entry written before is refused
C18_Witness ==
    /\ WroteAccount /\ returned.tag = "Err" /\ calls = 2
    /\ <<call.network_name, call.account>> \in DOMAIN first_written
    /\ first_written[<<call.network_name, call.account>>] # call.account_json
    /\ call.before.items = ("alpha-mainnet" :> (AccountB :> AccountJson("0x1")))

\* C19: no two [tool.sncast.<profile>] sections of Scarb.toml share a name,
\* and a profile is written under the name that was checked for existence.
C19_UniqueProfiles ==
    /\ \A m, n \in 1..Len(scarb_toml.sections) :
          m # n => scarb_toml.sections[m].name # scarb_toml.sections[n].name
    /\ (AddedProfile /\ returned.tag = "Ok") =>
          Last(scarb_toml.sections).name = AccountName(call.config)

ParseReturned == parse_returned # Nil

\* the block of a function item
BodyTokens(it) == SubSeq(it.text, LastIndexOf(it.text, "{"), Len(it.text))

\* the free functions of a unit, by the index of their item
FreeFunctions(unit) == {n \in 1..Len(unit) : unit[n].kind = "FreeFunction"}

FirstFunctionOn(unit, r) ==
    IF FreeFunctions(unit) = {}
    THEN r.tag = "Err" /\ r.diagnostic = "can be used only on a function"
    ELSE /\ r.tag = "Ok"
         /\ \E n \in FreeFunctions(unit) :
               /\ \A m \in FreeFunctions(unit) : n <= m
               /\ FunctionName(r.func) = unit[n].name
               /\ r.func.attributes \o r.func.visibility \o r.func.declaration
                     = SubSeq(unit[n].text, 1, Len(unit[n].text) - Len(BodyTokens(unit[n])))

ArgumentsOn(args, r) ==
    /\ r.tag \in {"Args", "Panic"}
    /\ (r.tag = "Args" /\ Prevalidated(args)) =>
          /\ r.function = "__SNFORGE_INTERNAL_FN__"
          /\ r.arguments.text = args
          /\ r.arguments.tag = IF args = <<>> THEN "Empty" ELSE "ArgListParenthesized"

\* C16: parse returns the first free function of the unit, and the
\* "can be used only on a function" diagnostic exactly when the unit holds
\* none; parse_args returns the argument list of the sentinel attribute of
\* the synthetic function or aborts, and never returns a diagnostic.
C16_Parse ==
    ParseReturned =>
        IF parse_call.op = "parse"
        THEN FirstFunctionOn(parse_call.unit, parse_returned)
        ELSE ArgumentsOn(parse_call.args, parse_returned)

\* the second of two functions is passed over, after an item that is none
C16_Witness ==
    /\ ParseReturned /\ parse_call.op = "parse"
    /\ Len(parse_call.unit) = 3
    /\ parse_call.unit[1].kind = "Other"
    /\ parse_call.unit[2].name = "g" /\ parse_call.unit[3].name = "f"
    /\ FunctionName(parse_returned.func) = "g"

====
